---- MODULE Spec2Model ----
(***************************************************************************)
(* Model of multibubble_lab.py: a population of bubble universes           *)
(* (Multiverse) stepped in discrete ticks, with every proposed export of   *)
(* invariants gated and logged by the EthicsEngine.                        *)
(*                                                                         *)
(* Numbers are fixed point:                                                *)
(*   invariants, amounts, exported_total   1 unit = 0.01                   *)
(*   inflation_rate, decay_inflection      1 unit = 0.2                    *)
(*   strictness, scale, collapse_export_frac   tenths                      *)
(*   consent_prob, tunnel_rate, hazard, uniform draws   parts per million  *)
(*   decay_rate and the logistic           thousandths                     *)
(* A product of fixed-point factors is divided back with \div (rounding    *)
(* down), where the program rounds the float product to nearest.           *)
(*                                                                         *)
(* An Optional[bool] is one of "True", "False", "None"; an Optional[int]   *)
(* is an id or NoneId.                                                     *)
(***************************************************************************)
EXTENDS Integers, Sequences, FiniteSets, TLC

VARIABLES
    mv,            \* instance -> the Multiverse object (and the frame of its running step())
    random_state   \* the state of the process-wide `random` module generator

vars == <<mv, random_state>>

------------------------------------------------------------------------------
(* Bounds of the model *)

MaxT == 2          \* step() is called at most MaxT times per instance

------------------------------------------------------------------------------
(* Helpers *)

Max(a, b) == IF a >= b THEN a ELSE b
Min(a, b) == IF a <= b THEN a ELSE b

NoneId == -1

\* a consent that is left undecided
OptBoolUndecided(b) == "None"

OptBool(b) == IF b THEN "True" ELSE "False"

------------------------------------------------------------------------------
(* Inputs: the arguments of the constructor and the values the generators  *)
(* may return.                                                             *)

Modes == {"closed", "consensual", "open"}
PolicyArgs == Modes \cup {"bogus"}

StrictnessArgs == {-10, 0, 10, 20}          \* -1.0, 0.0, 1.0, 2.0
ConsentProbArgs == {0, 850000}              \* 0.0, 0.85
DecayRateArgs == {0, 10}                    \* 0.0, 0.01
TunnelRateArgs == {50000}                   \* 0.05
DecayInflectionArgs == {6}                  \* 1.2
DecaySlopeArgs == {2, 5000}                 \* 2.0, 5000.0
CollapseExportFracArgs == {2}               \* 0.2
\* <<n_initial, max_bubbles>>: no founder; one founder and room for two children in
\* one tick; more founders than the cap; two founders and room for one child
Shapes == {<<0, 2>>, <<1, 4>>, <<2, 1>>, <<2, 3>>}

UniformDraws == {0, 999999}                 \* random() lies in [0, 1)
InfDraws == {-2, 1}                         \* normal(inf_mean, inf_sigma)
DriftDraws == {-1, 1}                       \* normal(0, drift_sigma)
ChildNoiseDraws == {0}                      \* normal(u.inflation_rate, 0.05) - u.inflation_rate
ProposedDraws == {-5, 40}                   \* normal(birth_export_mean, birth_export_sigma)

------------------------------------------------------------------------------
(* SovereigntyPolicy *)

PolicyValid(mode) == mode \in {"closed", "consensual", "open"}

scale(mode) ==
    IF mode = "open" THEN 10 ELSE (IF mode = "consensual" THEN 5 ELSE 0)

\* a policy gate that lets every mode export
allows_export_any(mode) == TRUE

allows_export(mode) == mode \in {"consensual", "open"}

------------------------------------------------------------------------------
(* EthicsEngine: e = [policy, cfg, ledger] *)

EthicsConfig(consent_prob, inherit_consent, strictness) ==
    [consent_prob |-> consent_prob, inherit_consent |-> inherit_consent,
     strictness |-> strictness]

EthicsEngine(policy, cfg) == [policy |-> policy, cfg |-> cfg, ledger |-> <<>>]

\* a consent sample that compares with <= where the program compares with <
decide_consent_le(e, current, u) ==
    IF current # "None" THEN current = "True" ELSE u <= e.cfg.consent_prob

\* decide_consent(current): `u` is the value random.random() returns if it is called
decide_consent(e, current, u) ==
    IF current # "None" THEN current = "True" ELSE u < e.cfg.consent_prob

\* a scaling that leaves the strictness out
ScaledByPolicyOnly(e, amt) == (amt * scale(e.policy)) \div 10

\* amt *= self.policy.scale() * self.cfg.strictness
Scaled(e, amt) == (amt * scale(e.policy) * e.cfg.strictness) \div 100

\* the dict that check_and_record appends; c holds the call's arguments
LedgerEntry(e, c, allowed, amt, reason) ==
    [t |-> c.t, type |-> c.ev_type, src |-> c.src_id, dst |-> c.dst_id,
     proposed |-> c.proposed_amt, allowed |-> allowed,
     amount |-> (IF allowed THEN amt ELSE 0),
     policy |-> e.policy, src_consents |-> c.src_consents,
     dst_consents |-> c.dst_consents, reason |-> reason]

\* a ledger that keeps the allowed transfers only
RecordAllowedOnly(e, entry) ==
    IF entry.allowed THEN [e EXCEPT !.ledger = Append(@, entry)] ELSE e

\* self.ledger.append({...})
Record(e, entry) == [e EXCEPT !.ledger = Append(@, entry)]

\* a gate that asks the source only, also when there is a destination
check_and_record_src_only(e, t, ev_type, src_id, dst_id, proposed_amt, src_consents, dst_consents) ==
    LET allowed == IF ~allows_export(e.policy) THEN FALSE
                   ELSE IF e.policy = "consensual" THEN src_consents
                   ELSE TRUE
        reason == IF ~allows_export(e.policy) THEN "policy_closed"
                  ELSE IF e.policy = "consensual" /\ ~src_consents THEN "no_consent"
                  ELSE "ok"
        amt == Max(0, IF allowed THEN Scaled(e, proposed_amt) ELSE proposed_amt)
        c == [t |-> t, ev_type |-> ev_type, src_id |-> src_id, dst_id |-> dst_id,
              proposed_amt |-> proposed_amt, src_consents |-> src_consents,
              dst_consents |-> dst_consents]
    IN  [allowed |-> allowed, amt |-> amt, reason |-> reason,
         ethics |-> Record(e, LedgerEntry(e, c, allowed, amt, reason))]

\* check_and_record: the returned tuple (allowed, amt, reason) and the engine afterwards
check_and_record(e, t, ev_type, src_id, dst_id, proposed_amt, src_consents, dst_consents) ==
    LET consented == src_consents /\ (IF dst_id # NoneId THEN dst_consents ELSE TRUE)
        allowed == IF ~allows_export(e.policy) THEN FALSE
                   ELSE IF e.policy = "consensual" THEN consented
                   ELSE TRUE
        reason == IF ~allows_export(e.policy) THEN "policy_closed"
                  ELSE IF e.policy = "consensual" /\ ~consented THEN "no_consent"
                  ELSE "ok"
        amt0 == IF allowed THEN Scaled(e, proposed_amt) ELSE proposed_amt
        amt == Max(0, amt0)
        c == [t |-> t, ev_type |-> ev_type, src_id |-> src_id, dst_id |-> dst_id,
              proposed_amt |-> proposed_amt, src_consents |-> src_consents,
              dst_consents |-> dst_consents]
    IN  [allowed |-> allowed, amt |-> amt, reason |-> reason,
         ethics |-> Record(e, LedgerEntry(e, c, allowed, amt, reason))]

------------------------------------------------------------------------------
(* Bubble *)

Bubble(id, inflation_rate, invariants, parent_id, consent) ==
    [id |-> id, inflation_rate |-> inflation_rate, invariants |-> invariants,
     stable |-> TRUE, parent_id |-> parent_id, consent |-> consent]

------------------------------------------------------------------------------
(* Multiverse: s = the object's attributes, plus the frame of a running    *)
(* step(): pc, idx (the position of `for u in self.universes`) and         *)
(* new_universes.                                                          *)

\* the locals (allowed, amt, _) of step(): unset, or what check_and_record last returned
NoRet == [set |-> FALSE, allowed |-> FALSE, amt |-> 0, reason |-> ""]

Ret(r) == [set |-> TRUE, allowed |-> r.allowed, amt |-> r.amt, reason |-> r.reason]

NotConstructed ==
    [pc |-> "new", ethics |-> EthicsEngine("none", EthicsConfig(0, FALSE, 0)),
     tunnel_rate |-> 0, decay_rate |-> 0, decay_inflection |-> 0, decay_slope |-> 0,
     collapse_export_frac |-> 0, max_bubbles |-> 0,
     universes |-> <<>>, t |-> 0, exported_total |-> 0, rng |-> 0,
     seed |-> 0, n_initial |-> 0,
     idx |-> 0, new_universes |-> <<>>, ret |-> NoRet]

\* the founders loop of __init__: fd[k] holds the draws of the k-th founder
RECURSIVE Founders(_, _, _)
Founders(e, fd, k) ==
    IF k = 0 THEN <<>>
    ELSE LET before == Founders(e, fd, k - 1)
             inf == Max(0, fd[k].inf)
             consent == decide_consent(e, "None", fd[k].consent_u)
         IN  Append(before, Bubble(Len(before), inf, 0, NoneId, OptBool(consent)))

\* Multiverse.__init__ with a valid policy; a holds the arguments
Multiverse(a, fd) ==
    LET e == EthicsEngine(a.policy, a.ethics_cfg)
    IN  [pc |-> "idle", ethics |-> e,
         tunnel_rate |-> a.tunnel_rate, decay_rate |-> a.decay_rate,
         decay_inflection |-> a.decay_inflection, decay_slope |-> a.decay_slope,
         collapse_export_frac |-> a.collapse_export_frac, max_bubbles |-> a.max_bubbles,
         universes |-> Founders(e, fd, a.n_initial), t |-> 0, exported_total |-> 0,
         rng |-> 0, seed |-> a.seed, n_initial |-> a.n_initial,
         idx |-> 0, new_universes |-> <<>>, ret |-> NoRet]

\* the arguments an object was constructed with
ArgsOf(s) ==
    [n_initial |-> s.n_initial, seed |-> s.seed, policy |-> s.ethics.policy,
     ethics_cfg |-> s.ethics.cfg, tunnel_rate |-> s.tunnel_rate,
     decay_rate |-> s.decay_rate, decay_inflection |-> s.decay_inflection,
     decay_slope |-> s.decay_slope, collapse_export_frac |-> s.collapse_export_frac,
     max_bubbles |-> s.max_bubbles]

\* 1000 / (1 + exp(-z)), rounded down, at whole z
LogisticTable ==
    <<0, 2, 6, 17, 47, 119, 268, 500, 731, 880, 952, 982, 993, 997, 999>>

Logistic(z) ==
    IF z <= -7 THEN 0 ELSE IF z >= 7 THEN 999 ELSE LogisticTable[z + 8]

HazardCap == 950000

\* math.exp(z) raises OverflowError above this z
ExpMax == 709

\* _collapse_prob(u): math.exp(-self.decay_slope * x) overflows and the call raises
collapse_prob_raises(s, u) ==
    -((s.decay_slope * (u.inflation_rate - s.decay_inflection)) \div 5) > ExpMax

\* _collapse_prob(u), in parts per million, when it returns
collapse_prob(s, u) ==
    LET x == u.inflation_rate - s.decay_inflection
        logistic == Logistic((s.decay_slope * x) \div 5)
        p == s.decay_rate * (500 + logistic)
    IN  Min(HazardCap, Max(0, p))

GrowthBase == 5
GrowthSlope == 3

\* step(): drift and internal production of universes[idx]
Produce(s) ==
    [s EXCEPT !.universes[s.idx].invariants = @ + GrowthBase
                 + GrowthSlope * s.universes[s.idx].inflation_rate]

Drift(s, d) ==
    [s EXCEPT !.universes[s.idx].inflation_rate = Max(0, @ + d.drift)]

\* step(): the population-cap test that guards tunneling
BelowCap(s) == Len(s.universes) + Len(s.new_universes) < s.max_bubbles

\* step(): the birth export proposal
BirthProposal(u, d) == Min(Max(0, d.proposed), u.invariants)

\* a child id that forgets the children already spawned in this tick
ChildIdOfPopulation(s) == Len(s.universes)

\* step(): the id of the next child
ChildId(s) == Len(s.universes) + Len(s.new_universes)

\* a birth that is not put to the ethics engine when there is nothing to propose
TunnelSilentWhenEmpty(s, d) ==
    LET u == s.universes[s.idx]
        child_inf == Max(0, u.inflation_rate + d.child_noise)
        child_consent == IF s.ethics.cfg.inherit_consent THEN u.consent
                         ELSE OptBool(decide_consent(s.ethics, "None", d.consent_u))
        child == Bubble(ChildId(s), child_inf, 0, u.id, child_consent)
        proposed == BirthProposal(u, d)
        r == check_and_record(s.ethics, s.t, "birth", u.id, child.id, proposed,
                              decide_consent(s.ethics, u.consent, d.src_u),
                              decide_consent(s.ethics, child.consent, d.dst_u))
        moved == IF r.allowed /\ r.amt > 0 THEN r.amt ELSE 0
    IN  IF proposed = 0
        THEN [s EXCEPT !.new_universes = Append(@, child)]
        ELSE [s EXCEPT !.ethics = r.ethics, !.ret = Ret(r),
                       !.universes[s.idx].invariants = @ - moved,
                       !.exported_total = @ + moved,
                       !.new_universes = Append(@, [child EXCEPT !.invariants = @ + moved])]

\* a birth that moves the returned amount without looking at the decision
TunnelMovesReturned(s, d) ==
    LET u == s.universes[s.idx]
        child_inf == Max(0, u.inflation_rate + d.child_noise)
        child_consent == IF s.ethics.cfg.inherit_consent THEN u.consent
                         ELSE OptBool(decide_consent(s.ethics, "None", d.consent_u))
        child == Bubble(ChildId(s), child_inf, 0, u.id, child_consent)
        proposed == BirthProposal(u, d)
        r == check_and_record(s.ethics, s.t, "birth", u.id, child.id, proposed,
                              decide_consent(s.ethics, u.consent, d.src_u),
                              decide_consent(s.ethics, child.consent, d.dst_u))
        moved == IF r.amt > 0 THEN r.amt ELSE 0
    IN  [s EXCEPT !.ethics = r.ethics, !.ret = Ret(r),
                  !.universes[s.idx].invariants = @ - moved,
                  !.exported_total = @ + moved,
                  !.new_universes = Append(@, [child EXCEPT !.invariants = @ + moved])]

\* a birth that appends the child to the population at once
TunnelIntoPopulation(s, d) ==
    LET u == s.universes[s.idx]
        child_inf == Max(0, u.inflation_rate + d.child_noise)
        child_consent == IF s.ethics.cfg.inherit_consent THEN u.consent
                         ELSE OptBool(decide_consent(s.ethics, "None", d.consent_u))
        child == Bubble(ChildId(s), child_inf, 0, u.id, child_consent)
        proposed == BirthProposal(u, d)
        r == check_and_record(s.ethics, s.t, "birth", u.id, child.id, proposed,
                              decide_consent(s.ethics, u.consent, d.src_u),
                              decide_consent(s.ethics, child.consent, d.dst_u))
        moved == IF r.allowed /\ r.amt > 0 THEN r.amt ELSE 0
        debited == [s EXCEPT !.ethics = r.ethics, !.ret = Ret(r),
                             !.universes[s.idx].invariants = @ - moved,
                             !.exported_total = @ + moved]
    IN  [debited EXCEPT !.universes = Append(@, [child EXCEPT !.invariants = @ + moved])]

\* step(): universes[idx] spawns a child
Tunnel(s, d) ==
    LET u == s.universes[s.idx]
        child_inf == Max(0, u.inflation_rate + d.child_noise)
        child_consent == IF s.ethics.cfg.inherit_consent THEN u.consent
                         ELSE OptBool(decide_consent(s.ethics, "None", d.consent_u))
        child == Bubble(ChildId(s), child_inf, 0, u.id, child_consent)
        proposed == BirthProposal(u, d)
        r == check_and_record(s.ethics, s.t, "birth", u.id, child.id, proposed,
                              decide_consent(s.ethics, u.consent, d.src_u),
                              decide_consent(s.ethics, child.consent, d.dst_u))
        moved == IF r.allowed /\ r.amt > 0 THEN r.amt ELSE 0
    IN  [s EXCEPT !.ethics = r.ethics, !.ret = Ret(r),
                  !.universes[s.idx].invariants = @ - moved,
                  !.exported_total = @ + moved,
                  !.new_universes = Append(@, [child EXCEPT !.invariants = @ + moved])]

\* a collapse that destroys the invariants only when the export is allowed
CollapseKeepsRefused(s, d) ==
    LET u == s.universes[s.idx]
        proposed == (s.collapse_export_frac * u.invariants) \div 10
        r == check_and_record(s.ethics, s.t, "collapse", u.id, NoneId, proposed,
                              decide_consent(s.ethics, u.consent, d.csrc_u), TRUE)
        moved == IF r.allowed /\ r.amt > 0 THEN r.amt ELSE 0
    IN  [s EXCEPT !.ethics = r.ethics, !.ret = Ret(r),
                  !.exported_total = @ + moved,
                  !.universes[s.idx].invariants = IF r.allowed THEN 0 ELSE @,
                  !.universes[s.idx].stable = FALSE]

\* step(): universes[idx] collapses
Collapse(s, d) ==
    LET u == s.universes[s.idx]
        proposed == (s.collapse_export_frac * u.invariants) \div 10
        r == check_and_record(s.ethics, s.t, "collapse", u.id, NoneId, proposed,
                              decide_consent(s.ethics, u.consent, d.csrc_u), TRUE)
        moved == IF r.allowed /\ r.amt > 0 THEN r.amt ELSE 0
    IN  [s EXCEPT !.ethics = r.ethics, !.ret = Ret(r),
                  !.exported_total = @ + moved,
                  !.universes[s.idx].invariants = 0,
                  !.universes[s.idx].stable = FALSE]

\* step(): the cap test and the tunneling trial
Tunnels(s, d) == BelowCap(s) /\ d.tunnel_u < s.tunnel_rate

\* a collapse trial that compares with <= where the program compares with <
CollapsesLe(s, d) == d.collapse_u <= collapse_prob(s, s.universes[s.idx])

\* step(): the collapse trial
Collapses(s, d) == d.collapse_u < collapse_prob(s, s.universes[s.idx])

\* a loop body without the `if not u.stable: continue` guard
LoopBodyNoSkip(s, d) ==
    LET s1 == Produce(Drift(s, d))
        s2 == IF Tunnels(s1, d) THEN Tunnel(s1, d) ELSE s1
        s3 == IF Collapses(s2, d) THEN Collapse(s2, d) ELSE s2
    IN  IF collapse_prob_raises(s2, s2.universes[s.idx])
        THEN [s2 EXCEPT !.pc = "raised"]
        ELSE [s3 EXCEPT !.idx = @ + 1]

\* step(): one pass of the body of `for u in self.universes`; when _collapse_prob
\* raises, the exception leaves step() and the object stays as the pass left it
LoopBody(s, d) ==
    IF ~s.universes[s.idx].stable THEN [s EXCEPT !.idx = @ + 1]
    ELSE LET s1 == Produce(Drift(s, d))
             s2 == IF Tunnels(s1, d) THEN Tunnel(s1, d) ELSE s1
             s3 == IF Collapses(s2, d) THEN Collapse(s2, d) ELSE s2
         IN  IF collapse_prob_raises(s2, s2.universes[s.idx])
             THEN [s2 EXCEPT !.pc = "raised"]
             ELSE [s3 EXCEPT !.idx = @ + 1]

\* the sum of a field over the stable entities of q
RECURSIVE SumStable(_, _)
SumStable(q, field) ==
    IF q = <<>> THEN 0
    ELSE (IF Head(q).stable THEN Head(q)[field] ELSE 0) + SumStable(Tail(q), field)

\* metrics that report the ratio of the total count to the alive count
metrics_inverted(s) ==
    LET total == Len(s.universes)
        stable == Cardinality({k \in 1..total : s.universes[k].stable})
    IN  [t |-> s.t, universes_total |-> total, universes_stable |-> stable,
         RCI |-> IF stable # 0 THEN <<total, stable>> ELSE <<0, 1>>,
         exported_total |-> s.exported_total,
         mean_inflation |-> <<0, 1>>, mean_invariants |-> <<0, 1>>]

\* metrics(): a ratio is the pair <<numerator, denominator>>
metrics(s) ==
    LET total == Len(s.universes)
        stable == Cardinality({k \in 1..total : s.universes[k].stable})
    IN  [t |-> s.t, universes_total |-> total, universes_stable |-> stable,
         RCI |-> IF total # 0 THEN <<stable, total>> ELSE <<0, 1>>,
         exported_total |-> s.exported_total,
         mean_inflation |-> IF stable # 0
                            THEN <<SumStable(s.universes, "inflation_rate"), stable>>
                            ELSE <<0, 1>>,
         mean_invariants |-> IF stable # 0
                             THEN <<SumStable(s.universes, "invariants"), stable>>
                             ELSE <<0, 1>>]

------------------------------------------------------------------------------
(* The draws one pass of the loop body may consume *)

ConsentDrawSet(current) == IF current = "None" THEN UniformDraws ELSE {0}

BirthDraws(s) ==
    [child_noise : ChildNoiseDraws, proposed : ProposedDraws,
     consent_u : IF s.ethics.cfg.inherit_consent THEN {0} ELSE UniformDraws,
     src_u : ConsentDrawSet(s.universes[s.idx].consent),
     dst_u : IF s.ethics.cfg.inherit_consent
             THEN ConsentDrawSet(s.universes[s.idx].consent) ELSE {0}]

NoBirthDraws == [child_noise |-> 0, proposed |-> 0, consent_u |-> 0, src_u |-> 0, dst_u |-> 0]

Draw(drift, tunnel_u, b, collapse_u, csrc_u) ==
    [drift |-> drift, tunnel_u |-> tunnel_u, child_noise |-> b.child_noise,
     proposed |-> b.proposed, consent_u |-> b.consent_u, src_u |-> b.src_u,
     dst_u |-> b.dst_u, collapse_u |-> collapse_u, csrc_u |-> csrc_u]

NoDraw == Draw(0, 0, NoBirthDraws, 0, 0)

\* the arguments of the constructor
ArgSet(seeds) ==
    {[n_initial |-> sh[1], seed |-> seed, policy |-> policy,
      ethics_cfg |-> EthicsConfig(consent_prob, inherit_consent, strictness),
      tunnel_rate |-> tunnel_rate, decay_rate |-> decay_rate,
      decay_inflection |-> decay_inflection, decay_slope |-> decay_slope,
      collapse_export_frac |-> collapse_export_frac, max_bubbles |-> sh[2]] :
        sh \in Shapes, seed \in seeds, policy \in PolicyArgs,
        consent_prob \in ConsentProbArgs, inherit_consent \in BOOLEAN,
        strictness \in StrictnessArgs, tunnel_rate \in TunnelRateArgs,
        decay_rate \in DecayRateArgs, decay_inflection \in DecayInflectionArgs,
        decay_slope \in DecaySlopeArgs, collapse_export_frac \in CollapseExportFracArgs}

------------------------------------------------------------------------------
(* Actions. step() runs to its end before anything else is called: the     *)
(* program is single threaded.                                             *)

\* no call on the object is running; "raised": its step() ended with an exception, which
\* nothing in the program catches
Idle(m) == mv[m].pc \in {"new", "error", "idle", "raised"}

\* Multiverse(...) is called: the object is built, or the constructor raises
Construct(m) ==
    /\ mv[m].pc = "new"
    /\ \A o \in DOMAIN mv : Idle(o)
    /\ \E a \in ArgSet({0}) :
        \E fd \in [1..a.n_initial -> [inf : InfDraws, consent_u : UniformDraws]] :
            IF ~PolicyValid(a.policy)
            THEN mv' = [mv EXCEPT ![m].pc = "error"]
            ELSE mv' = [mv EXCEPT ![m] = Multiverse(a, fd)]
    /\ UNCHANGED random_state

\* step() is entered
StepBegin(m) ==
    /\ mv[m].pc = "idle"
    /\ \A o \in DOMAIN mv : Idle(o)
    /\ mv[m].t < MaxT
    /\ mv' = [mv EXCEPT ![m].t = @ + 1, ![m].new_universes = <<>>,
                        ![m].idx = 1, ![m].pc = "loop"]
    /\ UNCHANGED random_state

\* one pass of the loop of step()
StepLoop(m) ==
    /\ mv[m].pc = "loop"
    /\ mv[m].idx <= Len(mv[m].universes)
    /\ LET s == mv[m]
           u == s.universes[s.idx]
       IN  IF ~u.stable
           THEN mv' = [mv EXCEPT ![m] = LoopBody(s, NoDraw)]
           ELSE \E drift \in DriftDraws, tunnel_u \in UniformDraws,
                   collapse_u \in UniformDraws, csrc_u \in ConsentDrawSet(u.consent) :
                  \E b \in (IF BelowCap(s) /\ tunnel_u < s.tunnel_rate
                            THEN BirthDraws(s) ELSE {NoBirthDraws}) :
                     mv' = [mv EXCEPT ![m] =
                              LoopBody(s, Draw(drift, tunnel_u, b, collapse_u, csrc_u))]
    /\ UNCHANGED random_state

\* the loop of step() is over: the children join the population and step() returns
StepEnd(m) ==
    /\ mv[m].pc = "loop"
    /\ mv[m].idx > Len(mv[m].universes)
    /\ mv' = [mv EXCEPT ![m].universes = @ \o mv[m].new_universes,
                        ![m].new_universes = <<>>, ![m].idx = 0,
                        ![m].ret = NoRet, ![m].pc = "idle"]
    /\ UNCHANGED random_state

Instances == {1}

Init ==
    /\ mv = [m \in Instances |-> NotConstructed]
    /\ random_state = 0

Next ==
    \/ \E m \in DOMAIN mv : Construct(m)
    \/ \E m \in DOMAIN mv : StepBegin(m)
    \/ \E m \in DOMAIN mv : StepLoop(m)
    \/ \E m \in DOMAIN mv : StepEnd(m)

Spec == Init /\ [][Next]_vars

------------------------------------------------------------------------------
(* The same program with its two generators spelled out: self.rng, one per *)
(* object, and the generator of the `random` module, one per process, both *)
(* seeded by the constructor. A generator is a 4-bit linear congruential   *)
(* generator (of full period) and the draws are read off its state.        *)

Seeds == {0, 1, 2}

LcgNext(x) == (5 * x + 3) % 16

RECURSIVE LcgIter(_, _)
LcgIter(x, k) == IF k = 0 THEN x ELSE LcgNext(LcgIter(x, k - 1))

\* default_rng(seed) and random.seed(seed)
SeedState(seed) == (7 * seed + 1) % 16

\* random(): the high bit of the state
UniformOf(x) == IF x < 8 THEN 0 ELSE 999999

\* normal(...): the next bit of the state chooses between a low and a high value
NormalOf(x, lo, hi) == IF (x \div 4) % 2 = 0 THEN lo ELSE hi

\* the draws of the founders loop of __init__, from generators in states x0 and g0
SeededFounderDraws(n_initial, x0, g0) ==
    [k \in 1..n_initial |->
        [inf |-> NormalOf(LcgIter(x0, k), -2, 1), consent_u |-> UniformOf(LcgIter(g0, k))]]

\* the draws of one pass of the loop body on an alive entity, in the order the body
\* makes them, and the generators afterwards: g is the state of the `random` module
SeededDraws(s, g) ==
    LET u == s.universes[s.idx]
        x1 == LcgNext(s.rng)                               \* drift
        x2 == IF BelowCap(s) THEN LcgNext(x1) ELSE x1      \* tunneling trial
        tunnel_u == IF BelowCap(s) THEN UniformOf(x2) ELSE 0
        tun == BelowCap(s) /\ tunnel_u < s.tunnel_rate
        x3 == IF tun THEN LcgNext(x2) ELSE x2              \* child_inf
        fresh == tun /\ ~s.ethics.cfg.inherit_consent
        g1 == IF fresh THEN LcgNext(g) ELSE g              \* consent of the child
        x4 == IF tun THEN LcgNext(x3) ELSE x3              \* proposed
        g2 == IF tun /\ u.consent = "None" THEN LcgNext(g1) ELSE g1
        g3 == IF tun /\ ~fresh /\ u.consent = "None" THEN LcgNext(g2) ELSE g2
        x5 == LcgNext(x4)                                  \* collapse trial
        g4 == IF u.consent = "None" THEN LcgNext(g3) ELSE g3
        b == IF tun
             THEN [child_noise |-> 0, proposed |-> NormalOf(x4, -5, 40),
                   consent_u |-> UniformOf(g1), src_u |-> UniformOf(g2),
                   dst_u |-> UniformOf(g3)]
             ELSE NoBirthDraws
    IN  [d |-> Draw(NormalOf(x1, -1, 1), tunnel_u, b, UniformOf(x5), UniformOf(g4)),
         rng |-> x5, random_birth |-> g3, random_collapse |-> g4]

\* Multiverse(...) is called with a seed; a second object is given the arguments and
\* the seed of the first
ConstructSeeded(m) ==
    /\ mv[m].pc = "new"
    /\ \A o \in DOMAIN mv : Idle(o)
    /\ \E a \in ArgSet(Seeds) :
        /\ \A o \in DOMAIN mv : mv[o].pc \in {"idle", "raised"} => a = ArgsOf(mv[o])
        /\ LET x0 == SeedState(a.seed)
               fd == SeededFounderDraws(a.n_initial, x0, x0)
           IN  IF ~PolicyValid(a.policy)
               THEN /\ mv' = [mv EXCEPT ![m].pc = "error"]
                    /\ random_state' = x0
               ELSE /\ mv' = [mv EXCEPT ![m] =
                                [Multiverse(a, fd) EXCEPT !.rng = LcgIter(x0, a.n_initial)]]
                    /\ random_state' = LcgIter(x0, a.n_initial)

\* one pass of the loop of step(), drawing from the generators
StepLoopSeeded(m) ==
    /\ mv[m].pc = "loop"
    /\ mv[m].idx <= Len(mv[m].universes)
    /\ LET s == mv[m]
           u == s.universes[s.idx]
           sd == SeededDraws(s, random_state)
           s2 == LoopBody(s, sd.d)
       IN  IF ~u.stable
           THEN /\ mv' = [mv EXCEPT ![m] = LoopBody(s, NoDraw)]
                /\ UNCHANGED random_state
           ELSE /\ mv' = [mv EXCEPT ![m] = [s2 EXCEPT !.rng = sd.rng]]
                /\ random_state' = IF ~s2.universes[s.idx].stable
                                   THEN sd.random_collapse ELSE sd.random_birth

InstancesSeeded == {1, 2}

InitSeeded ==
    /\ mv = [m \in InstancesSeeded |-> NotConstructed]
    /\ random_state = 0

NextSeeded ==
    \/ \E m \in DOMAIN mv : ConstructSeeded(m)
    \/ \E m \in DOMAIN mv : StepBegin(m)
    \/ \E m \in DOMAIN mv : StepLoopSeeded(m)
    \/ \E m \in DOMAIN mv : StepEnd(m)

SpecSeeded == InitSeeded /\ [][NextSeeded]_vars

------------------------------------------------------------------------------
(* Properties *)

Constructed(m) == mv[m].pc \in {"idle", "loop"}

\* the population followed by the children spawned so far in the running tick
Entities(s) == s.universes \o s.new_universes

Last(q) == q[Len(q)]

HasEntry(s, type, allowed) ==
    \E k \in 1..Len(s.ethics.ledger) :
        /\ s.ethics.ledger[k].type = type
        /\ s.ethics.ledger[k].allowed = allowed
        /\ s.ethics.ledger[k].proposed > 0

\* C1: under policy closed nothing is ever exported: exported_total stays 0, every
\* ledger entry is refused with reason policy_closed and amount 0, and no child is
\* given invariants at its birth.
ClosedPolicyExportsNothing ==
    \A m \in DOMAIN mv :
        (Constructed(m) /\ mv[m].ethics.policy = "closed") =>
            /\ mv[m].exported_total = 0
            /\ \A k \in 1..Len(mv[m].ethics.ledger) :
                  /\ ~mv[m].ethics.ledger[k].allowed
                  /\ mv[m].ethics.ledger[k].reason = "policy_closed"
                  /\ mv[m].ethics.ledger[k].amount = 0
            /\ \A k \in 1..Len(mv[m].new_universes) :
                  mv[m].new_universes[k].invariants = 0
            /\ mv[m].ret.set => ~mv[m].ret.allowed

ClosedPolicyWitness ==
    \E m \in DOMAIN mv :
        /\ mv[m].ethics.policy = "closed"
        /\ mv[m].t = 2
        /\ HasEntry(mv[m], "birth", FALSE)
        /\ HasEntry(mv[m], "collapse", FALSE)

\* C2: every entity, alive or dead, in the population or just spawned, holds
\* invariants >= 0.
ResourceNonNegative ==
    \A m \in DOMAIN mv :
        \A k \in 1..Len(Entities(mv[m])) : Entities(mv[m])[k].invariants >= 0

\* C3: two objects constructed with the same arguments and the same seed, and stepped
\* the same number of times, have equal metrics() and equal ledgers.
SameSeedSameRun ==
    \A a, b \in DOMAIN mv :
        (mv[a].pc = "idle" /\ mv[b].pc = "idle" /\ ArgsOf(mv[a]) = ArgsOf(mv[b])
            /\ mv[a].t = mv[b].t) =>
            /\ metrics(mv[a]) = metrics(mv[b])
            /\ mv[a].ethics.ledger = mv[b].ethics.ledger

\* C4: the entity at position i (from 0) has id i, also for the children spawned in the
\* running tick; the founders have no parent and every other entity has a parent of
\* smaller id.
IdsFollowCreationOrder ==
    \A m \in DOMAIN mv :
        \A k \in 1..Len(Entities(mv[m])) :
            LET u == Entities(mv[m])[k]
            IN  /\ u.id = k - 1
                /\ (k <= mv[m].n_initial) <=> (u.parent_id = NoneId)
                /\ u.parent_id # NoneId => (0 <= u.parent_id /\ u.parent_id < u.id)

IdsWitness ==
    \E m \in DOMAIN mv :
        /\ Len(mv[m].new_universes) = 2
        /\ \E k \in 1..Len(mv[m].universes) : ~mv[m].universes[k].stable

\* C5: the population and the children spawned in the running tick never number more
\* than max_bubbles.
PopulationWithinCap ==
    \A m \in DOMAIN mv :
        Constructed(m) =>
            Len(mv[m].universes) + Len(mv[m].new_universes) <= mv[m].max_bubbles

\* C6: when check_and_record returns allowed = False it returns amount 0, and the
\* amount it returns is the amount of the ledger entry it appended.
RefusedReturnsZero ==
    \A m \in DOMAIN mv :
        mv[m].ret.set =>
            /\ ~mv[m].ret.allowed => mv[m].ret.amt = 0
            /\ mv[m].ret.amt = Last(mv[m].ethics.ledger).amount

\* the entities of s that are alive
Alive(s) == {k \in 1..Len(s.universes) : s.universes[k].stable}

\* the calls of check_and_record between two states of an object: one for each child
\* spawned and one for each entity that collapsed
Proposals(s, s2) ==
    (IF s.pc = "loop" /\ s2.pc \in {"loop", "raised"}
     THEN Len(s2.new_universes) - Len(s.new_universes) ELSE 0)
    + Cardinality({k \in Alive(s) : ~s2.universes[k].stable})

\* C7: the ledger is append-only with one entry for each proposed transfer: every step of
\* the program keeps the old ledger as a prefix of the new one, adds exactly one entry for
\* each birth and each collapse (allowed or not), and the entries' t never decreases
\* along the ledger.
LedgerAppendOnly ==
    [][\A m \in DOMAIN mv :
          LET old == mv[m].ethics.ledger
              new == mv'[m].ethics.ledger
          IN  mv[m].pc # "new" =>
                /\ Len(new) >= Len(old)
                /\ SubSeq(new, 1, Len(old)) = old
                /\ Len(new) - Len(old) = Proposals(mv[m], mv'[m])
                /\ \A k \in 1..(Len(new) - 1) : new[k].t <= new[k + 1].t]_vars

LedgerWitness ==
    \E m \in DOMAIN mv :
        /\ Len(mv[m].ethics.ledger) >= 3
        /\ mv[m].ethics.ledger[1].t < Last(mv[m].ethics.ledger).t
        /\ \E k \in 1..Len(mv[m].ethics.ledger) : ~mv[m].ethics.ledger[k].allowed
        /\ \E k \in 1..Len(mv[m].ethics.ledger) : mv[m].ethics.ledger[k].allowed

\* the consents the consensual policy requires of a ledger entry
RequiredConsents(r) == r.src_consents /\ (r.dst # NoneId => r.dst_consents)

\* C8: with strictness 0, under policy open or under policy consensual with the required
\* consents, every ledger entry is allowed with amount 0; exported_total stays 0, the
\* amount returned for debit is 0 and no child is given invariants at its birth.
StrictnessZeroMovesNothing ==
    \A m \in DOMAIN mv :
        (Constructed(m) /\ mv[m].ethics.cfg.strictness = 0
            /\ mv[m].ethics.policy \in {"open", "consensual"}) =>
            /\ \A k \in 1..Len(mv[m].ethics.ledger) :
                  LET r == mv[m].ethics.ledger[k]
                  IN  /\ r.amount = 0
                      /\ (mv[m].ethics.policy = "open" \/ RequiredConsents(r)) => r.allowed
            /\ mv[m].exported_total = 0
            /\ (mv[m].ret.set /\ mv[m].ret.allowed) => mv[m].ret.amt = 0
            /\ \A k \in 1..Len(mv[m].new_universes) :
                  mv[m].new_universes[k].invariants = 0

StrictnessZeroWitness ==
    \E m \in DOMAIN mv :
        /\ mv[m].ethics.cfg.strictness = 0
        /\ mv[m].ethics.policy = "consensual"
        /\ HasEntry(mv[m], "birth", TRUE)
        /\ HasEntry(mv[m], "collapse", TRUE)

\* C9: under policy consensual with consent_prob 0 every ledger entry, birth or
\* collapse, is refused with reason no_consent, and exported_total stays 0.
NoConsentAtProbabilityZero ==
    \A m \in DOMAIN mv :
        (Constructed(m) /\ mv[m].ethics.policy = "consensual"
            /\ mv[m].ethics.cfg.consent_prob = 0) =>
            /\ \A k \in 1..Len(mv[m].ethics.ledger) :
                  /\ ~mv[m].ethics.ledger[k].allowed
                  /\ mv[m].ethics.ledger[k].reason = "no_consent"
            /\ mv[m].exported_total = 0

NoConsentWitness ==
    \E m \in DOMAIN mv :
        /\ mv[m].ethics.policy = "consensual"
        /\ mv[m].ethics.cfg.consent_prob = 0
        /\ ~mv[m].ethics.cfg.inherit_consent
        /\ HasEntry(mv[m], "birth", FALSE)
        /\ HasEntry(mv[m], "collapse", FALSE)

\* C10: with decay_rate 0 no entity is ever dead (the alive count is the total count),
\* the hazard of every entity is 0 and the ledger holds no collapse entry.
NoCollapseAtDecayZero ==
    \A m \in DOMAIN mv :
        (Constructed(m) /\ mv[m].decay_rate = 0) =>
            /\ \A k \in 1..Len(mv[m].universes) :
                  /\ mv[m].universes[k].stable
                  /\ collapse_prob(mv[m], mv[m].universes[k]) = 0
            /\ \A k \in 1..Len(mv[m].ethics.ledger) :
                  mv[m].ethics.ledger[k].type # "collapse"

NoCollapseWitness ==
    \E m \in DOMAIN mv :
        /\ mv[m].decay_rate = 0
        /\ mv[m].pc = "idle"
        /\ mv[m].t = 2
        /\ Len(mv[m].universes) = 4
        /\ \E k \in 1..4 : mv[m].universes[k].inflation_rate # mv[m].universes[1].inflation_rate

\* the ledger entries that a step of the program appends to the ledger of object m
Appended(m) ==
    {mv'[m].ethics.ledger[j] :
        j \in (Len(mv[m].ethics.ledger) + 1)..Len(mv'[m].ethics.ledger)}

\* C11: death is permanent and dead entities are frozen: the population only grows and
\* every entity keeps its position; an entity that is dead stays dead, keeps its
\* inflation_rate and invariants (and every other field) through every later step of
\* the program, and no entry appended to the ledger afterwards has it as source.
DeadStaysDead ==
    [][\A m \in DOMAIN mv :
          /\ Len(mv'[m].universes) >= Len(mv[m].universes)
          /\ \A k \in 1..Len(mv[m].universes) :
                /\ mv'[m].universes[k].id = mv[m].universes[k].id
                /\ ~mv[m].universes[k].stable =>
                      /\ mv'[m].universes[k] = mv[m].universes[k]
                      /\ \A r \in Appended(m) : r.src # mv[m].universes[k].id]_vars

DeadWitness ==
    \E m \in DOMAIN mv :
        /\ mv[m].pc = "idle"
        /\ mv[m].t = 2
        /\ Len(mv[m].universes) >= 3
        /\ ~mv[m].universes[1].stable
        /\ \E k \in 1..Len(mv[m].ethics.ledger) :
              mv[m].ethics.ledger[k].src = 0 /\ mv[m].ethics.ledger[k].t = 1
                /\ mv[m].ethics.ledger[k].type = "collapse"
        /\ \E k \in 1..Len(mv[m].ethics.ledger) : mv[m].ethics.ledger[k].t = 2

\* C12: metrics() reports an RCI equal to the alive count over the total count, which
\* lies in [0, 1] and is 0 when the population is empty; the alive count is at most the
\* total count; and the t it reports is the number of step() calls made so far: 0 after
\* construction, one more with every step() entered and unchanged otherwise.
StabilityRatioBounds ==
    /\ [](\A m \in DOMAIN mv :
            mv[m].pc \in {"idle", "loop", "raised"} =>
                LET r == metrics(mv[m])
                    total == Len(mv[m].universes)
                    alive == Cardinality(Alive(mv[m]))
                IN  /\ r.universes_total = total
                    /\ r.universes_stable = alive
                    /\ alive <= total
                    /\ r.RCI[2] > 0
                    /\ 0 <= r.RCI[1] /\ r.RCI[1] <= r.RCI[2]
                    /\ total = 0 => r.RCI[1] = 0
                    /\ r.RCI[1] * total = alive * r.RCI[2])
    /\ [][\A m \in DOMAIN mv :
            metrics(mv'[m]).t =
                IF mv[m].pc = "new" THEN 0
                ELSE IF mv[m].pc = "idle" /\ mv'[m].pc = "loop" THEN metrics(mv[m]).t + 1
                ELSE metrics(mv[m]).t]_vars

StabilityRatioWitness ==
    \E m \in DOMAIN mv :
        /\ mv[m].pc = "idle"
        /\ metrics(mv[m]).t = 2
        /\ metrics(mv[m]).universes_total = 3
        /\ metrics(mv[m]).RCI = <<1, 3>>

\* C13: once the object is constructed no call raises: step() never ends with an
\* exception, whatever the decay_slope, the strictness and the proposals, and the
\* hazard of every entity lies in [0, 0.95].
StepNeverRaises ==
    \A m \in DOMAIN mv :
        /\ mv[m].pc # "raised"
        /\ \A k \in 1..Len(mv[m].universes) :
              /\ 0 <= collapse_prob(mv[m], mv[m].universes[k])
              /\ collapse_prob(mv[m], mv[m].universes[k]) <= HazardCap

\* C14: a constructor called with a policy that is not 'closed', 'consensual' or 'open'
\* raises before anything exists or is touched: the failed object has no entity and no
\* ledger and is never stepped, and the call leaves the generator of the `random` module
\* as it was; a constructed object has one of the three modes and keeps it.
BadPolicyTouchesNothing ==
    /\ [](\A m \in DOMAIN mv :
            /\ mv[m].pc = "error" =>
                  /\ mv[m].universes = <<>>
                  /\ mv[m].ethics.ledger = <<>>
                  /\ mv[m].t = 0
            /\ mv[m].pc \in {"idle", "loop", "raised"} => PolicyValid(mv[m].ethics.policy))
    /\ [][\A m \in DOMAIN mv :
            /\ (mv[m].pc = "new" /\ mv'[m].pc = "error") => random_state' = random_state
            /\ mv[m].pc = "error" => mv'[m] = mv[m]
            /\ mv[m].pc \in {"idle", "loop", "raised"} =>
                  mv'[m].ethics.policy = mv[m].ethics.policy]_vars

\* C15: under policy consensual a ledger entry is allowed exactly when the source
\* consents and, if there is a destination, the destination consents too; a collapse
\* entry has no destination and depends on the source alone; an allowed entry has reason
\* ok and amount max(0, proposed * 0.5 * strictness), a refused one has reason no_consent
\* and amount 0. Under policy open every entry is allowed with reason ok and amount
\* max(0, proposed * 1.0 * strictness), whatever the consents.
ConsensualGate ==
    \A m \in DOMAIN mv :
        \A k \in 1..Len(mv[m].ethics.ledger) :
            LET r == mv[m].ethics.ledger[k]
                strictness == mv[m].ethics.cfg.strictness
            IN  /\ mv[m].ethics.policy = "consensual" =>
                      /\ r.allowed <=> (r.src_consents /\ (r.dst # NoneId => r.dst_consents))
                      /\ r.type = "collapse" => (r.dst = NoneId /\ (r.allowed <=> r.src_consents))
                      /\ r.type = "birth" => r.dst # NoneId
                      /\ r.allowed =>
                            /\ r.reason = "ok"
                            /\ r.amount = Max(0, (r.proposed * 5 * strictness) \div 100)
                      /\ ~r.allowed => (r.reason = "no_consent" /\ r.amount = 0)
                /\ mv[m].ethics.policy = "open" =>
                      /\ r.allowed
                      /\ r.reason = "ok"
                      /\ r.amount = Max(0, (r.proposed * 10 * strictness) \div 100)

ConsensualGateWitness ==
    \E m \in DOMAIN mv :
        /\ mv[m].ethics.policy = "consensual"
        /\ \E k \in 1..Len(mv[m].ethics.ledger) :
              LET r == mv[m].ethics.ledger[k]
              IN  r.type = "birth" /\ r.src_consents /\ ~r.dst_consents /\ ~r.allowed
        /\ \E k \in 1..Len(mv[m].ethics.ledger) :
              LET r == mv[m].ethics.ledger[k]
              IN  r.type = "collapse" /\ r.allowed /\ r.amount > 0
        /\ \E k \in 1..Len(mv[m].ethics.ledger) :
              LET r == mv[m].ethics.ledger[k]
              IN  r.type = "birth" /\ r.allowed /\ r.amount > 0

\* the birth entries of the ledger of s written in its current tick
BirthsOfTick(s) ==
    {k \in 1..Len(s.ethics.ledger) :
        s.ethics.ledger[k].type = "birth" /\ s.ethics.ledger[k].t = s.t}

\* C16: a child spawned in a tick is left alone until the next tick. In every state of
\* the tick and at its end the child is alive, holds exactly the amount of its birth
\* entry (0 if refused) and is the source of no ledger entry; while the loop runs it
\* waits outside the population, which keeps its length, and it is not modified; when
\* the loop has passed every entity the children are appended in spawning order.
ChildrenDeferred ==
    /\ [](\A m \in DOMAIN mv :
            \A k \in BirthsOfTick(mv[m]) :
                LET r == mv[m].ethics.ledger[k]
                    pos == r.dst + 1
                IN  /\ pos <= Len(Entities(mv[m]))
                    /\ Entities(mv[m])[pos].id = r.dst
                    /\ Entities(mv[m])[pos].stable
                    /\ Entities(mv[m])[pos].invariants = r.amount
                    /\ \A j \in 1..Len(mv[m].ethics.ledger) :
                          mv[m].ethics.ledger[j].src # r.dst
                    /\ mv[m].pc = "loop" => pos > Len(mv[m].universes))
    /\ [][\A m \in DOMAIN mv :
            /\ (mv[m].pc = "loop" /\ mv'[m].pc # "idle") =>
                  /\ Len(mv'[m].universes) = Len(mv[m].universes)
                  /\ Len(mv'[m].new_universes) >= Len(mv[m].new_universes)
                  /\ \A k \in 1..Len(mv[m].new_universes) :
                        mv'[m].new_universes[k] = mv[m].new_universes[k]
            /\ (mv[m].pc = "loop" /\ mv'[m].pc = "idle") =>
                  /\ mv[m].idx > Len(mv[m].universes)
                  /\ mv'[m].universes = mv[m].universes \o mv[m].new_universes]_vars

ChildrenDeferredWitness ==
    \E m \in DOMAIN mv :
        /\ mv[m].pc = "idle"
        /\ mv[m].t = 2
        /\ Cardinality(BirthsOfTick(mv[m])) = 2
        /\ \E k \in BirthsOfTick(mv[m]) : mv[m].ethics.ledger[k].amount > 0
        /\ \E k \in BirthsOfTick(mv[m]) : ~mv[m].ethics.ledger[k].allowed
        /\ \E k \in 1..Len(mv[m].ethics.ledger) :
              mv[m].ethics.ledger[k].type = "collapse" /\ mv[m].ethics.ledger[k].t = 2

\* the amount of the birth entry with source id that a step of the program appends to
\* the ledger of object m, 0 if it appends none
BirthDebit(m, id) ==
    LET births == {r \in Appended(m) : r.type = "birth" /\ r.src = id}
    IN  IF births = {} THEN 0 ELSE (CHOOSE r \in births : TRUE).amount

\* C17: a collapse destroys what the entity holds, whatever the decision: every dead
\* entity has invariants 0, and the step in which an entity dies sets its invariants to 0
\* and appends its collapse entry last, whether allowed or refused. If the entity spawned
\* a child in the same tick, the birth entry comes before the collapse entry and the
\* collapse proposal is collapse_export_frac times what was left after drift, production
\* and the birth debit.
CollapseDestroysResource ==
    /\ [](\A m \in DOMAIN mv :
            /\ \A k \in 1..Len(mv[m].universes) :
                  ~mv[m].universes[k].stable => mv[m].universes[k].invariants = 0
            /\ \A i, j \in 1..Len(mv[m].ethics.ledger) :
                  LET b == mv[m].ethics.ledger[i]
                      c == mv[m].ethics.ledger[j]
                  IN  (b.type = "birth" /\ c.type = "collapse" /\ b.src = c.src
                         /\ b.t = c.t) => i < j)
    /\ [][\A m \in DOMAIN mv :
            \A k \in 1..Len(mv[m].universes) :
                (mv[m].universes[k].stable /\ ~mv'[m].universes[k].stable) =>
                    LET u == mv[m].universes[k]
                        v == mv'[m].universes[k]
                        c == Last(mv'[m].ethics.ledger)
                        left == u.invariants + GrowthBase + GrowthSlope * v.inflation_rate
                                  - BirthDebit(m, u.id)
                    IN  /\ v.invariants = 0
                        /\ c \in Appended(m)
                        /\ c.type = "collapse" /\ c.src = u.id /\ c.t = mv'[m].t
                        /\ c.reason \in {"ok", "policy_closed", "no_consent"}
                        /\ c.proposed = (mv[m].collapse_export_frac * left) \div 10]_vars

CollapseWitness ==
    \E m \in DOMAIN mv :
        /\ \E i, j \in 1..Len(mv[m].ethics.ledger) :
              LET b == mv[m].ethics.ledger[i]
                  c == mv[m].ethics.ledger[j]
              IN  /\ b.type = "birth" /\ c.type = "collapse"
                  /\ b.src = c.src /\ b.t = c.t
                  /\ b.amount > 0 /\ c.proposed > 0
        /\ \E j \in 1..Len(mv[m].ethics.ledger) :
              LET c == mv[m].ethics.ledger[j]
              IN  c.type = "collapse" /\ ~c.allowed /\ c.proposed > 0

\* the sum of the amounts of the entries of a ledger
RECURSIVE SumAmounts(_)
SumAmounts(q) == IF q = <<>> THEN 0 ELSE Head(q).amount + SumAmounts(Tail(q))

\* C18: exported_total is the sum of the amounts of the ledger entries (a refused entry
\* counts 0) and never decreases. A birth entry of amount a goes with a child holding
\* exactly a and a parent that, after its production, holds exactly a less: for a
\* refused or zero-amount birth the child holds 0 and the parent loses nothing; and
\* exported_total grows by exactly the amounts appended.
ExportedMatchesLedger ==
    /\ [](\A m \in DOMAIN mv : mv[m].exported_total = SumAmounts(mv[m].ethics.ledger))
    /\ [][\A m \in DOMAIN mv :
            /\ mv'[m].exported_total >= mv[m].exported_total
            /\ mv[m].pc # "new" =>
                  mv'[m].exported_total - mv[m].exported_total
                     = SumAmounts(SubSeq(mv'[m].ethics.ledger,
                                         Len(mv[m].ethics.ledger) + 1,
                                         Len(mv'[m].ethics.ledger)))
            /\ \A r \in Appended(m) :
                  (mv[m].pc # "new" /\ r.type = "birth") =>
                      LET u == mv[m].universes[r.src + 1]
                          v == mv'[m].universes[r.src + 1]
                          child == Last(mv'[m].new_universes)
                      IN  /\ r.amount >= 0
                          /\ ~r.allowed => r.amount = 0
                          /\ child.id = r.dst
                          /\ child.invariants = r.amount
                          /\ v.stable =>
                                v.invariants = u.invariants + GrowthBase
                                     + GrowthSlope * v.inflation_rate - r.amount]_vars

ExportedWitness ==
    \E m \in DOMAIN mv :
        /\ mv[m].t = 2
        /\ mv[m].exported_total > 0
        /\ \E k \in 1..Len(mv[m].ethics.ledger) :
              LET r == mv[m].ethics.ledger[k]
              IN  r.type = "birth" /\ r.allowed /\ r.amount > 0
                    /\ mv[m].universes[r.src + 1].stable
        /\ \E k \in 1..Len(mv[m].ethics.ledger) :
              LET r == mv[m].ethics.ledger[k]
              IN  r.type = "birth" /\ ~r.allowed /\ r.proposed > 0
        /\ \E k \in 1..Len(mv[m].ethics.ledger) :
              LET r == mv[m].ethics.ledger[k]
              IN  r.type = "collapse" /\ r.allowed /\ r.amount > 0

\* the positions of the ledger of s that hold an entry of this type
EntriesOfType(s, type) == {k \in 1..Len(s.ethics.ledger) : s.ethics.ledger[k].type = type}

\* C19: between two steps the ledger and the population correspond: there are as many
\* birth entries as entities that are not founders and as many collapse entries as dead
\* entities; every entity that is not a founder is the destination of exactly one birth
\* entry, whose source is its parent_id; every entity is the source of at most one
\* collapse entry, and a collapse entry has no destination.
LedgerMatchesPopulation ==
    \A m \in DOMAIN mv :
        mv[m].pc = "idle" =>
            LET s == mv[m]
                total == Len(s.universes)
            IN  /\ Cardinality(EntriesOfType(s, "birth")) = total - s.n_initial
                /\ Cardinality(EntriesOfType(s, "collapse")) = total - Cardinality(Alive(s))
                /\ \A k \in 1..total :
                      LET u == s.universes[k]
                          born == {j \in EntriesOfType(s, "birth") :
                                      s.ethics.ledger[j].dst = u.id}
                          died == {j \in EntriesOfType(s, "collapse") :
                                      s.ethics.ledger[j].src = u.id}
                      IN  /\ Cardinality(born) = IF k > s.n_initial THEN 1 ELSE 0
                          /\ \A j \in born : s.ethics.ledger[j].src = u.parent_id
                          /\ Cardinality(died) = IF u.stable THEN 0 ELSE 1
                /\ \A j \in EntriesOfType(s, "collapse") : s.ethics.ledger[j].dst = NoneId
                /\ \A j \in 1..Len(s.ethics.ledger) :
                      s.ethics.ledger[j].type \in {"birth", "collapse"}

LedgerPopulationWitness ==
    \E m \in DOMAIN mv :
        /\ mv[m].pc = "idle"
        /\ mv[m].t = 2
        /\ Len(mv[m].universes) = 4
        /\ \E k \in 1..4 : k > mv[m].n_initial /\ ~mv[m].universes[k].stable
        /\ \E k \in 1..4 : k <= mv[m].n_initial /\ ~mv[m].universes[k].stable
        /\ \E j \in EntriesOfType(mv[m], "birth") :
              ~mv[m].ethics.ledger[j].allowed /\ mv[m].ethics.ledger[j].proposed = 0

====
